---- MODULE Spec2Model ----
(***************************************************************************)
(* gotel: the HTTP API of a "dead man's switch" monitor (src/api.go).      *)
(* The write handlers (makeReservation, doCheckin, doSnooze, doCheckOut),  *)
(* the reservation listing and the coordinator discovery (getNodes) are    *)
(* modelled over an abstract store.                                        *)
(***************************************************************************)
EXTENDS Integers, Sequences, FiniteSets, TLC

VARIABLES
    now,            \* the wall clock, Unix seconds (time.Now().UTC().Unix())
    reservations,   \* table reservations: the set of its rows
    snoozes,        \* the stored snoozes
    hklog,          \* the housekeeping log, append-only
    req,            \* the request handled last, with the faults injected into it
    resp,           \* the response written to the http.ResponseWriter
    nodeList,       \* table nodes, ordered by id
    peers,          \* how the peer at each address answers GET /is-coordinator
    gn,             \* the getNodes call in progress: position, result, polls done
    inflight        \* per request goroutine: the checkin it holds between reading
                    \* now and calling the store (empty when it holds none)

storeVars == <<reservations, snoozes, hklog>>
serviceVars == <<now, reservations, snoozes, hklog, req, resp>>
nodeVars == <<nodeList, peers, gn>>
vars == <<now, reservations, snoozes, hklog, req, resp, nodeList, peers, gn, inflight>>

----------------------------------------------------------------------------
(* Bounds of the model *)

StartTime == 4000       \* the clock when the service starts
TickSeconds == 30       \* granularity of the modelled clock
MaxSteps == 13          \* the clock runs for at most MaxSteps granules
MaxCheckins == 2        \* checkins accepted per pair
MaxLog == 3             \* entries of the housekeeping log
MaxSnoozes == 2         \* snoozes stored
MaxNodes == 3           \* rows of the nodes table
MaxInflight == 2        \* request goroutines that run doCheckin at the same time

----------------------------------------------------------------------------
(* Request inputs *)

Pairs == {<<"svc", "db">>, <<"new", "x">>}

\* "" is the zero value the decoder leaves when the field is absent
TimeUnitInputs == {"seconds", "minutes", "hours", "days", ""}
FrequencyInputs == {-1, 0, 1, 5}
DurationInputs == {-1, 0, 1, 2}

validTimeUnits == {"seconds", "minutes", "hours"}

----------------------------------------------------------------------------
(* The store (storage layer, outside src/api.go) *)

unitSeconds(u) ==
    CASE u = "seconds" -> 1
      [] u = "minutes" -> 60
      [] u = "hours" -> 3600
      [] OTHER -> 0

\* the rows of table rs that belong to one (app, component)
rowsOf(rs, app, component) ==
    {r \in rs : r.app = app /\ r.component = component}

\* InsertReservation as a plain insert that does not look for the pair's row
storeReservation_insertOnly(rs, res) ==
    rs \cup {[app |-> res.app, component |-> res.component,
              frequency |-> res.frequency, timeUnits |-> res.timeUnits,
              lastCheckin |-> 0, numCheckins |-> 0]}

\* InsertReservation: one row per (app, component); a new row starts with
\* numCheckins = 0 and lastCheckinTimestamp = 0, an existing row keeps its
\* counters and takes the new contract.
storeReservation(rs, res) ==
    LET old == rowsOf(rs, res.app, res.component) IN
    IF old # {}
    THEN {IF r \in old
          THEN [r EXCEPT !.frequency = res.frequency, !.timeUnits = res.timeUnits]
          ELSE r : r \in rs}
    ELSE rs \cup {[app |-> res.app, component |-> res.component,
                   frequency |-> res.frequency, timeUnits |-> res.timeUnits,
                   lastCheckin |-> 0, numCheckins |-> 0]}

\* UpdateCheckin: lastCheckinTimestamp = now, numCheckins + 1; a pair that was
\* never reserved is recorded with its first checkin.
storeCheckin(rs, c, t) ==
    LET old == rowsOf(rs, c.app, c.component) IN
    IF old # {}
    THEN {IF r \in old
          THEN [r EXCEPT !.lastCheckin = t, !.numCheckins = r.numCheckins + 1]
          ELSE r : r \in rs}
    ELSE rs \cup {[app |-> c.app, component |-> c.component,
                   frequency |-> 0, timeUnits |-> "seconds",
                   lastCheckin |-> t, numCheckins |-> 1]}

\* InsertHousekeepingLog
logHouseKeeping(lg, c, t) ==
    Append(lg, [app |-> c.app, component |-> c.component, ts |-> t])

\* InsertSnooze: the snooze is stored with its issue time
storeSnooze(sn, p, t) ==
    sn \cup {[app |-> p.app, component |-> p.component, timeUnits |-> p.timeUnits,
              duration |-> p.duration, issued |-> t]}

\* DeleteReservation: deleting a pair that is not there is not an error
storeCheckOut(rs, p) ==
    rs \ rowsOf(rs, p.app, p.component)

----------------------------------------------------------------------------
(* The SLA evaluator (outside src/api.go) *)

expiry(s) == s.issued + s.duration * unitSeconds(s.timeUnits)

activeSnooze(sn, app, component, t) ==
    \E s \in sn : s.app = app /\ s.component = component /\ expiry(s) > t

\* Evaluate: an active snooze suppresses the failure, otherwise the pair fails
\* when more than frequency * unit seconds passed since its last checkin.
FailsSLA(res, sn, t) ==
    IF activeSnooze(sn, res.app, res.component, t)
    THEN FALSE
    ELSE (t - res.lastCheckin) > res.frequency * unitSeconds(res.timeUnits)

----------------------------------------------------------------------------
(* Responses *)

\* a bare JSON string, as in writeError(w, "...") and writeResponse(w, "OK")
Str(msg) == [json |-> "string", success |-> "absent", message |-> msg, result |-> <<>>]
\* a Response{"success": ..., "message": ...} object
Obj(ok, msg) ==
    [json |-> "object", success |-> IF ok THEN "true" ELSE "false",
     message |-> msg, result |-> <<>>]
\* a Response{"success": true, "result": ...} object
Res(rows) == [json |-> "object", success |-> "true", message |-> <<>>, result |-> rows]
\* a Go bool: json.Marshal writes the bare text true or false
Bool(b) ==
    [json |-> "bool", success |-> "absent",
     message |-> <<IF b THEN "true" ELSE "false">>, result |-> <<>>]

\* WriteHeader(400) comes before Header().Set, so the Content-Type is not sent;
\* json.Marshal of a string cannot fail
writeError(e) ==
    [status |-> 400, contentType |-> "", body |-> e]

\* no WriteHeader: the status is the default 200; json.Marshal of a string or
\* of a map of strings, booleans and reservations cannot fail
writeResponse(e) ==
    [status |-> 200, contentType |-> "application/json", body |-> e]

----------------------------------------------------------------------------
(* Validation *)

validateReservation(res) ==
    IF res.timeUnits \notin validTimeUnits
    THEN "Invalid time_units passed in"
    ELSE "nil"

validateSnooze(p) ==
    IF p.timeUnits \notin validTimeUnits
    THEN "Invalid time_units passed in"
    ELSE IF p.duration = 0 THEN "" ELSE "nil"

----------------------------------------------------------------------------
(* The request handled last: its handler, the decoded body, the faults injected
   (decoder error, store error), whether validation failed, and the store
   calls the handler made *)

Handled(op, in, decodeErr, validErr, storeErr, calls) ==
    [op |-> op, in |-> in, decodeErr |-> decodeErr, validErr |-> validErr,
     storeErr |-> storeErr, calls |-> calls]

----------------------------------------------------------------------------
(* The reservation listing *)

RECURSIVE orderDesc(_)
\* ORDER BY last_checkin_timestamp DESC
orderDesc(rows) ==
    IF rows = {} THEN <<>>
    ELSE LET k == CHOOSE x \in rows :
                    \A y \in rows : x.lastCheckin >= y.lastCheckin
         IN <<k>> \o orderDesc(rows \ {k})

\* res := reservation{} and rows.Scan(...): FailingSLA keeps its zero value
scanRow(k) ==
    [app |-> k.app, component |-> k.component,
     frequency |-> k.frequency,
     timeUnits |-> k.timeUnits,
     lastCheckin |-> k.lastCheckin,
     numCheckins |-> k.numCheckins,
     failingSLA |-> FALSE]

\* getReservations with the two branches of the FailsSLA test exchanged
getReservations_swapped ==
    LET ks == orderDesc(reservations) IN
    [i \in 1..Len(ks) |->
        LET res == scanRow(ks[i]) IN
        IF FailsSLA(res, snoozes, now)
        THEN [res EXCEPT !.failingSLA = FALSE]
        ELSE [res EXCEPT !.failingSLA = TRUE]]

\* getReservations without the FailsSLA test: the rows as scanned
getReservations_unflagged ==
    LET ks == orderDesc(reservations) IN
    [i \in 1..Len(ks) |-> scanRow(ks[i])]

\* getReservations leaving out the rows whose SLA has failed
getReservations_dropsFailing ==
    LET ks == orderDesc(reservations)
        scanned == [i \in 1..Len(ks) |-> scanRow(ks[i])]
        kept(res) == ~FailsSLA(res, snoozes, now)
    IN SelectSeq(scanned, kept)

getReservations ==
    LET ks == orderDesc(reservations) IN
    [i \in 1..Len(ks) |->
        LET res == scanRow(ks[i]) IN
        IF FailsSLA(res, snoozes, now)
        THEN [res EXCEPT !.failingSLA = TRUE]
        ELSE [res EXCEPT !.failingSLA = FALSE]]

listReservations(queryErr) ==
    /\ UNCHANGED <<nodeVars, inflight>>
    /\ req' = Handled("listReservations", <<>>, FALSE, FALSE, queryErr, <<"Query">>)
    /\ resp' = IF queryErr
               THEN writeResponse(Obj(FALSE, <<"Unable to list reservations">>))
               ELSE writeResponse(Res(getReservations))
    /\ UNCHANGED <<now, reservations, snoozes, hklog>>

----------------------------------------------------------------------------
(* The write handlers *)

\* makeReservation calling storeReservation before validateReservation
makeReservation_storesFirst(res, decodeErr, storeErr) ==
    LET err == validateReservation(res) IN
    /\ UNCHANGED <<nodeVars, inflight>>
    /\ IF storeErr
       THEN /\ req' = Handled("makeReservation", res, decodeErr, FALSE, TRUE,
                              <<"storeReservation">>)
            /\ resp' = writeError(Str(<<"Unable to store reservation">>))
            /\ UNCHANGED <<now, reservations, snoozes, hklog>>
       ELSE IF err # "nil"
       THEN /\ req' = Handled("makeReservation", res, decodeErr, TRUE, FALSE,
                              <<"storeReservation">>)
            /\ reservations' = storeReservation(reservations, res)
            /\ resp' = writeError(Str(<<"Unable to store reservation, validation failure", err>>))
            /\ UNCHANGED <<now, snoozes, hklog>>
       ELSE /\ req' = Handled("makeReservation", res, decodeErr, FALSE, FALSE,
                              <<"storeReservation">>)
            /\ reservations' = storeReservation(reservations, res)
            /\ resp' = writeResponse(Str(<<"OK">>))
            /\ UNCHANGED <<now, snoozes, hklog>>

makeReservation(res, decodeErr, storeErr) ==
    LET err == validateReservation(res) IN
    /\ UNCHANGED <<nodeVars, inflight>>
    \* a decoder error is logged and the handler goes on with what was decoded
    /\ IF err # "nil"
       THEN /\ req' = Handled("makeReservation", res, decodeErr, TRUE, FALSE, <<>>)
            /\ resp' = writeError(Str(<<"Unable to store reservation, validation failure", err>>))
            /\ UNCHANGED <<now, reservations, snoozes, hklog>>
       ELSE IF storeErr
       THEN /\ req' = Handled("makeReservation", res, decodeErr, FALSE, TRUE,
                              <<"storeReservation">>)
            /\ resp' = writeError(Str(<<"Unable to store reservation">>))
            /\ UNCHANGED <<now, reservations, snoozes, hklog>>
       ELSE /\ req' = Handled("makeReservation", res, decodeErr, FALSE, FALSE,
                              <<"storeReservation">>)
            /\ reservations' = storeReservation(reservations, res)
            /\ resp' = writeResponse(Str(<<"OK">>))
            /\ UNCHANGED <<now, snoozes, hklog>>

\* doCheckin without the call of storeCheckin: only the log entry is written
doCheckin_logOnly(c, decodeErr, failAt) ==
    /\ UNCHANGED <<nodeVars, inflight>>
    /\ Len(hklog) < MaxLog
    /\ \A r \in rowsOf(reservations, c.app, c.component) :
          r.numCheckins < MaxCheckins
    /\ IF decodeErr
       THEN /\ req' = Handled("doCheckin", c, TRUE, FALSE, FALSE, <<>>)
            /\ resp' = writeResponse(Obj(FALSE, <<"Unable to checkin: ", c.app>>))
            /\ UNCHANGED <<now, reservations, snoozes, hklog>>
       ELSE IF failAt # "none"
       THEN /\ req' = Handled("doCheckin", c, FALSE, FALSE, TRUE, <<"logHouseKeeping">>)
            /\ resp' = writeResponse(Obj(FALSE, <<"Unable to save checkin: ", c.app>>))
            /\ UNCHANGED <<now, reservations, snoozes, hklog>>
       ELSE /\ req' = Handled("doCheckin", c, FALSE, FALSE, FALSE, <<"logHouseKeeping">>)
            /\ hklog' = logHouseKeeping(hklog, c, now)
            /\ resp' = writeResponse(Obj(TRUE, <<"Application checked in: ", c.app>>))
            /\ UNCHANGED <<now, reservations, snoozes>>

\* failAt names the store call that fails: "none", "storeCheckin" or "logHouseKeeping"
\* doCheckin answering success without looking at the error of logHouseKeeping
doCheckin_ignoresLogErr(c, decodeErr, failAt) ==
    /\ UNCHANGED <<nodeVars, inflight>>
    /\ Len(hklog) < MaxLog
    /\ \A r \in rowsOf(reservations, c.app, c.component) :
          r.numCheckins < MaxCheckins
    /\ IF decodeErr
       THEN /\ req' = Handled("doCheckin", c, TRUE, FALSE, FALSE, <<>>)
            /\ resp' = writeResponse(Obj(FALSE, <<"Unable to checkin: ", c.app>>))
            /\ UNCHANGED <<now, reservations, snoozes, hklog>>
       ELSE IF failAt = "storeCheckin"
       THEN /\ req' = Handled("doCheckin", c, FALSE, FALSE, TRUE, <<"storeCheckin">>)
            /\ resp' = writeResponse(Obj(FALSE, <<"Unable to save checkin: ", c.app>>))
            /\ UNCHANGED <<now, reservations, snoozes, hklog>>
       ELSE IF failAt = "logHouseKeeping"
       THEN /\ req' = Handled("doCheckin", c, FALSE, FALSE, TRUE,
                              <<"storeCheckin", "logHouseKeeping">>)
            /\ reservations' = storeCheckin(reservations, c, now)
            /\ resp' = writeResponse(Obj(TRUE, <<"Application checked in: ", c.app>>))
            /\ UNCHANGED <<now, snoozes, hklog>>
       ELSE /\ req' = Handled("doCheckin", c, FALSE, FALSE, FALSE,
                              <<"storeCheckin", "logHouseKeeping">>)
            /\ reservations' = storeCheckin(reservations, c, now)
            /\ hklog' = logHouseKeeping(hklog, c, now)
            /\ resp' = writeResponse(Obj(TRUE, <<"Application checked in: ", c.app>>))
            /\ UNCHANGED <<now, snoozes>>

doCheckin(c, decodeErr, failAt) ==
    /\ UNCHANGED <<nodeVars, inflight>>
    /\ Len(hklog) < MaxLog
    /\ \A r \in rowsOf(reservations, c.app, c.component) :
          r.numCheckins < MaxCheckins
    /\ IF decodeErr
       THEN /\ req' = Handled("doCheckin", c, TRUE, FALSE, FALSE, <<>>)
            /\ resp' = writeResponse(Obj(FALSE, <<"Unable to checkin: ", c.app>>))
            /\ UNCHANGED <<now, reservations, snoozes, hklog>>
       ELSE IF failAt = "storeCheckin"
       THEN /\ req' = Handled("doCheckin", c, FALSE, FALSE, TRUE, <<"storeCheckin">>)
            /\ resp' = writeResponse(Obj(FALSE, <<"Unable to save checkin: ", c.app>>))
            /\ UNCHANGED <<now, reservations, snoozes, hklog>>
       ELSE IF failAt = "logHouseKeeping"
       THEN /\ req' = Handled("doCheckin", c, FALSE, FALSE, TRUE,
                              <<"storeCheckin", "logHouseKeeping">>)
            /\ reservations' = storeCheckin(reservations, c, now)
            /\ resp' = writeResponse(Obj(FALSE, <<"Unable to save checkin: ", c.app>>))
            /\ UNCHANGED <<now, snoozes, hklog>>
       ELSE /\ req' = Handled("doCheckin", c, FALSE, FALSE, FALSE,
                              <<"storeCheckin", "logHouseKeeping">>)
            /\ reservations' = storeCheckin(reservations, c, now)
            /\ hklog' = logHouseKeeping(hklog, c, now)
            /\ resp' = writeResponse(Obj(TRUE, <<"Application checked in: ", c.app>>))
            /\ UNCHANGED <<now, snoozes>>

\* net/http runs every request on a goroutine of its own
Handlers == 1..MaxInflight

\* doCheckin on goroutine h up to line 205: the body is decoded and the
\* handler reads its own now
doCheckinBegin(h, c, decodeErr) ==
    /\ UNCHANGED nodeVars
    /\ inflight[h] = {}
    /\ IF decodeErr
       THEN /\ req' = Handled("doCheckin", c, TRUE, FALSE, FALSE, <<>>)
            /\ resp' = writeResponse(Obj(FALSE, <<"Unable to checkin: ", c.app>>))
            /\ UNCHANGED inflight
       ELSE /\ inflight' = [inflight EXCEPT
                               ![h] = {[app |-> c.app, component |-> c.component, ts |-> now]}]
            /\ UNCHANGED <<req, resp>>
    /\ UNCHANGED <<now, reservations, snoozes, hklog>>

\* doCheckin on goroutine h from line 207: the two store calls with the now
\* the handler read, and the reply
doCheckinStore(h, failAt) ==
    /\ UNCHANGED nodeVars
    /\ inflight[h] # {}
    /\ LET held == CHOOSE x \in inflight[h] : TRUE
           c == [app |-> held.app, component |-> held.component]
       IN
       /\ Len(hklog) < MaxLog
       /\ \A r \in rowsOf(reservations, c.app, c.component) :
             r.numCheckins < MaxCheckins
       /\ IF failAt = "storeCheckin"
          THEN /\ req' = Handled("doCheckin", c, FALSE, FALSE, TRUE, <<"storeCheckin">>)
               /\ resp' = writeResponse(Obj(FALSE, <<"Unable to save checkin: ", c.app>>))
               /\ UNCHANGED <<reservations, hklog>>
          ELSE IF failAt = "logHouseKeeping"
          THEN /\ req' = Handled("doCheckin", c, FALSE, FALSE, TRUE,
                                 <<"storeCheckin", "logHouseKeeping">>)
               /\ reservations' = storeCheckin(reservations, c, held.ts)
               /\ resp' = writeResponse(Obj(FALSE, <<"Unable to save checkin: ", c.app>>))
               /\ UNCHANGED hklog
          ELSE /\ req' = Handled("doCheckin", c, FALSE, FALSE, FALSE,
                                 <<"storeCheckin", "logHouseKeeping">>)
               /\ reservations' = storeCheckin(reservations, c, held.ts)
               /\ hklog' = logHouseKeeping(hklog, c, held.ts)
               /\ resp' = writeResponse(Obj(TRUE, <<"Application checked in: ", c.app>>))
    /\ inflight' = [inflight EXCEPT ![h] = {}]
    /\ UNCHANGED <<now, snoozes>>

doSnooze(p, decodeErr, storeErr) ==
    LET err == validateSnooze(p) IN
    /\ UNCHANGED <<nodeVars, inflight>>
    /\ Cardinality(snoozes) < MaxSnoozes
    /\ IF decodeErr
       THEN /\ req' = Handled("doSnooze", p, TRUE, FALSE, FALSE, <<>>)
            /\ resp' = writeResponse(Obj(FALSE, <<"Unable to snooze: ", p.app>>))
            /\ UNCHANGED <<now, reservations, snoozes, hklog>>
       ELSE IF err # "nil"
       THEN /\ req' = Handled("doSnooze", p, FALSE, TRUE, FALSE, <<>>)
            /\ resp' = writeError(Str(<<"Unable to store snooze, validation failure", err>>))
            /\ UNCHANGED <<now, reservations, snoozes, hklog>>
       ELSE IF storeErr
       THEN /\ req' = Handled("doSnooze", p, FALSE, FALSE, TRUE, <<"storeSnooze">>)
            /\ resp' = writeResponse(Obj(FALSE, <<"Unable to save snooze: ", p.app>>))
            /\ UNCHANGED <<now, reservations, snoozes, hklog>>
       ELSE /\ req' = Handled("doSnooze", p, FALSE, FALSE, FALSE, <<"storeSnooze">>)
            /\ snoozes' = storeSnooze(snoozes, p, now)
            /\ resp' = writeResponse(Obj(TRUE, <<"Application alerting paused: ", p.app>>))
            /\ UNCHANGED <<now, reservations, hklog>>

\* doCheckOut answering a checkout that removed no row as a failure
doCheckOut_notFound(p, decodeErr, storeErr) ==
    /\ UNCHANGED <<nodeVars, inflight>>
    /\ IF decodeErr
       THEN /\ req' = Handled("doCheckOut", p, TRUE, FALSE, FALSE, <<>>)
            /\ resp' = writeResponse(Obj(FALSE, <<"Unable to checkout: ", p.app>>))
            /\ UNCHANGED <<now, reservations, snoozes, hklog>>
       ELSE IF storeErr
       THEN /\ req' = Handled("doCheckOut", p, FALSE, FALSE, TRUE, <<"storeCheckOut">>)
            /\ resp' = writeResponse(Obj(FALSE, <<"Unable to save checkout: ", p.app>>))
            /\ UNCHANGED <<now, reservations, snoozes, hklog>>
       ELSE /\ req' = Handled("doCheckOut", p, FALSE, FALSE, FALSE, <<"storeCheckOut">>)
            /\ reservations' = storeCheckOut(reservations, p)
            /\ resp' = IF rowsOf(reservations, p.app, p.component) = {}
                       THEN writeResponse(Obj(FALSE, <<"Unable to save checkout: ", p.app>>))
                       ELSE writeResponse(Obj(TRUE, <<"Application Removed", p.app, p.component>>))
            /\ UNCHANGED <<now, snoozes, hklog>>

doCheckOut(p, decodeErr, storeErr) ==
    /\ UNCHANGED <<nodeVars, inflight>>
    /\ IF decodeErr
       THEN /\ req' = Handled("doCheckOut", p, TRUE, FALSE, FALSE, <<>>)
            /\ resp' = writeResponse(Obj(FALSE, <<"Unable to checkout: ", p.app>>))
            /\ UNCHANGED <<now, reservations, snoozes, hklog>>
       ELSE IF storeErr
       THEN /\ req' = Handled("doCheckOut", p, FALSE, FALSE, TRUE, <<"storeCheckOut">>)
            /\ resp' = writeResponse(Obj(FALSE, <<"Unable to save checkout: ", p.app>>))
            /\ UNCHANGED <<now, reservations, snoozes, hklog>>
       ELSE /\ req' = Handled("doCheckOut", p, FALSE, FALSE, FALSE, <<"storeCheckOut">>)
            /\ reservations' = storeCheckOut(reservations, p)
            /\ resp' = writeResponse(Obj(TRUE, <<"Application Removed", p.app, p.component>>))
            /\ UNCHANGED <<now, snoozes, hklog>>

\* the clock advances by n granules
Tick(n) ==
    /\ now + n * TickSeconds <= StartTime + MaxSteps * TickSeconds
    /\ now' = now + n * TickSeconds
    /\ UNCHANGED <<reservations, snoozes, hklog, req, resp>>
    /\ UNCHANGED <<nodeVars, inflight>>

----------------------------------------------------------------------------
(* Coordinator discovery *)

IP(i) == <<10, 0, 0, i>>
IPs == {IP(i) : i \in 1..MaxNodes}

\* The answers of a peer to http.Get("http://<ip>:8080/is-coordinator"):
\*   "true", "false"  200 and the body its isCoordinator handler writes
\*   "unreadable"     200, but reading the body fails
\*   "non200"         a reply with another status
\*   "refused"        http.Get returns an error
\*   "hang"           the peer accepts the connection and does not reply
PeerStates == {"true", "false", "unreadable", "non200", "refused", "hang"}

\* the query of the nodes table; an error ends the call
getNodesQuery(queryErr) ==
    /\ gn.pc \in {"idle", "returned"}
    /\ gn' = IF queryErr
             THEN [i |-> 0, err |-> TRUE, pc |-> "returned", nodes |-> <<>>, polled |-> <<>>]
             ELSE [i |-> 1, err |-> FALSE, pc |-> "rows", nodes |-> <<>>, polled |-> <<>>]
    /\ UNCHANGED <<nodeList, peers>>
    /\ UNCHANGED <<serviceVars, inflight>>

\* rows.Next() and rows.Scan(): the end of the rows returns the result, a scan
\* error returns the error, otherwise the row's peer is polled next
getNodesScan(scanErr) ==
    /\ gn.pc = "rows"
    /\ gn' = IF gn.i > Len(nodeList)
             THEN [gn EXCEPT !.pc = "returned"]
             ELSE IF scanErr
             THEN [gn EXCEPT !.pc = "returned", !.nodes = <<>>, !.err = TRUE]
             ELSE [gn EXCEPT !.pc = "get"]
    /\ UNCHANGED <<nodeList, peers>>
    /\ UNCHANGED <<serviceVars, inflight>>

\* the handler of GET /is-coordinator: the node's own flag, written as JSON
isCoordinator(coordinator) ==
    writeResponse(Bool(coordinator))

\* string(body) of a response body that was read to its end: a JSON bool is
\* its bare text, every other value carries quotes or braces
bodyString(e) ==
    IF e.json = "bool" THEN e.message[1] ELSE "quoted"

\* getNodesPoll taking every body other than "false" for a coordinator
getNodesPoll_notFalse ==
    LET row == nodeList[gn.i]
        answer == peers[row.ipAddress]
        served == isCoordinator(answer = "true")
        body == IF answer = "unreadable" THEN "" ELSE bodyString(served.body)
        res == [ipAddress |-> row.ipAddress, id |-> row.id, nodeId |-> row.nodeId,
                isCoordinator |-> (body # "false")]
    IN
    /\ gn.pc = "get"
    /\ answer # "hang"
    /\ gn' = IF answer \in {"refused", "non200"}
             THEN [gn EXCEPT !.pc = "rows", !.i = gn.i + 1,
                             !.polled = Append(gn.polled, "unreachable")]
             ELSE [gn EXCEPT !.pc = "rows", !.i = gn.i + 1,
                             !.polled = Append(gn.polled, "reachable"),
                             !.nodes = Append(gn.nodes, res)]
    /\ UNCHANGED <<nodeList, peers>>
    /\ UNCHANGED <<serviceVars, inflight>>

\* getNodesPoll returning the error of http.Get instead of going on
getNodesPoll_failFast ==
    LET row == nodeList[gn.i]
        answer == peers[row.ipAddress]
        served == isCoordinator(answer = "true")
        body == IF answer = "unreadable" THEN "" ELSE bodyString(served.body)
        res == [ipAddress |-> row.ipAddress, id |-> row.id, nodeId |-> row.nodeId,
                isCoordinator |-> (body = "true")]
    IN
    /\ gn.pc = "get"
    /\ answer # "hang"
    /\ gn' = IF answer = "refused"
             THEN [gn EXCEPT !.pc = "returned", !.nodes = <<>>, !.err = TRUE,
                             !.polled = Append(gn.polled, "unreachable")]
             ELSE IF answer = "non200"
             THEN [gn EXCEPT !.pc = "rows", !.i = gn.i + 1,
                             !.polled = Append(gn.polled, "unreachable")]
             ELSE [gn EXCEPT !.pc = "rows", !.i = gn.i + 1,
                             !.polled = Append(gn.polled, "reachable"),
                             !.nodes = Append(gn.nodes, res)]
    /\ UNCHANGED <<nodeList, peers>>
    /\ UNCHANGED <<serviceVars, inflight>>

\* http.Get with the default client (no timeout) returns when the peer answers
\* or the transport fails; the row is appended only after a 200 reply. A peer
\* in state "true" or "false" serves isCoordinator of its flag; a body whose
\* read fails is cut short, ioutil.ReadAll returns what came before the error.
getNodesPoll ==
    LET row == nodeList[gn.i]
        answer == peers[row.ipAddress]
        served == isCoordinator(answer = "true")
        body == IF answer = "unreadable" THEN "" ELSE bodyString(served.body)
        res == [ipAddress |-> row.ipAddress, id |-> row.id, nodeId |-> row.nodeId,
                isCoordinator |-> (body = "true")]
    IN
    /\ gn.pc = "get"
    /\ answer # "hang"
    /\ gn' = IF answer \in {"refused", "non200"}
             THEN [gn EXCEPT !.pc = "rows", !.i = gn.i + 1,
                             !.polled = Append(gn.polled, "unreachable")]
             ELSE [gn EXCEPT !.pc = "rows", !.i = gn.i + 1,
                             !.polled = Append(gn.polled, "reachable"),
                             !.nodes = Append(gn.nodes, res)]
    /\ UNCHANGED <<nodeList, peers>>
    /\ UNCHANGED <<serviceVars, inflight>>

\* the environment: a peer goes down, comes back, changes its flag
PeerChange(a, st) ==
    /\ peers[a] # st
    /\ peers' = [peers EXCEPT ![a] = st]
    /\ UNCHANGED <<nodeList, gn>>
    /\ UNCHANGED <<serviceVars, inflight>>

----------------------------------------------------------------------------
(* Request bodies *)

Reservation(k, f, u) == [app |-> k[1], component |-> k[2], frequency |-> f, timeUnits |-> u]
Snooze(k, d, u) == [app |-> k[1], component |-> k[2], timeUnits |-> u, duration |-> d]
Pair(k) == [app |-> k[1], component |-> k[2]]

StoreFaults == {"none", "storeCheckin", "logHouseKeeping"}

InitService ==
    /\ now = StartTime
    /\ reservations = {}
    /\ snoozes = {}
    /\ hklog = <<>>
    /\ req = Handled("none", <<>>, FALSE, FALSE, FALSE, <<>>)
    /\ inflight = [h \in Handlers |-> {}]
    /\ resp = [status |-> 0, contentType |-> "", body |-> Str(<<>>)]

\* a nodes table of n rows; every peer up and not coordinator
InitCluster(n) ==
    /\ nodeList = [i \in 1..n |-> [ipAddress |-> IP(i), id |-> i, nodeId |-> i]]
    /\ peers = [a \in IPs |-> "false"]
    /\ gn = [i |-> 0, err |-> FALSE, pc |-> "idle", nodes |-> <<>>, polled |-> <<>>]

Init == InitService /\ InitCluster(0)

----------------------------------------------------------------------------
(* The service: the four write handlers, for two pairs *)

Next ==
    \/ \E k \in Pairs, u \in {"minutes", "days"}, d, e \in BOOLEAN :
          makeReservation(Reservation(k, 5, u), d, e)
    \/ \E k \in Pairs, d \in BOOLEAN, f \in StoreFaults : doCheckin(Pair(k), d, f)
    \/ \E k \in Pairs, n \in {0, 1}, d, e \in BOOLEAN :
          doSnooze(Snooze(k, n, "hours"), d, e)
    \/ \E k \in Pairs, d, e \in BOOLEAN : doCheckOut(Pair(k), d, e)

Spec == Init /\ [][Next]_vars

----------------------------------------------------------------------------
(* Validation: makeReservation and doSnooze on every input, for one pair *)

NextValidation ==
    \/ \E f \in FrequencyInputs, u \in TimeUnitInputs, d, e \in BOOLEAN :
          makeReservation(Reservation(<<"svc", "db">>, f, u), d, e)
    \/ \E n \in DurationInputs, u \in TimeUnitInputs, d, e \in BOOLEAN :
          doSnooze(Snooze(<<"svc", "db">>, n, u), d, e)

SpecValidation == Init /\ [][NextValidation]_vars

----------------------------------------------------------------------------
(* SLA evaluation: one pair reserved, checked in, snoozed and listed while the
   clock moves from T to T + 6min and T + 6min30s *)

NextSLA ==
    \/ \E f \in {5, 6} : makeReservation(Reservation(<<"svc", "db">>, f, "minutes"), FALSE, FALSE)
    \/ \E d \in BOOLEAN, f \in StoreFaults : doCheckin(Pair(<<"svc", "db">>), d, f)
    \/ \E u \in {"minutes", "hours"} : doSnooze(Snooze(<<"svc", "db">>, 1, u), FALSE, FALSE)
    \/ \E e \in BOOLEAN : listReservations(e)
    \* the clock jumps to the last granule but one, then moves granule by granule
    \/ Tick(IF now = StartTime THEN MaxSteps - 1 ELSE 1)

SpecSLA == Init /\ [][NextSLA]_vars

----------------------------------------------------------------------------
(* Coordinator discovery over a nodes table of up to MaxNodes rows *)

InitNodes == InitService /\ \E n \in 0..MaxNodes : InitCluster(n)

NextNodes ==
    \/ \E e \in BOOLEAN : getNodesQuery(e)
    \/ \E e \in BOOLEAN : getNodesScan(e)
    \/ getNodesPoll
    \/ \E a \in IPs, st \in PeerStates : PeerChange(a, st)

SpecNodes == InitNodes /\ [][NextNodes]_vars

----------------------------------------------------------------------------
(* Checkins of one pair handled on MaxInflight goroutines at the same time *)

NextConcurrent ==
    \/ makeReservation(Reservation(<<"svc", "db">>, 5, "minutes"), FALSE, FALSE)
    \/ \E h \in Handlers, d \in BOOLEAN : doCheckinBegin(h, Pair(<<"svc", "db">>), d)
    \/ \E h \in Handlers, f \in StoreFaults : doCheckinStore(h, f)
    \/ Tick(IF now = StartTime THEN MaxSteps - 1 ELSE 1)

SpecConcurrent == Init /\ [][NextConcurrent]_vars

----------------------------------------------------------------------------
(* The life of two reservations: created, checked in, snoozed, listed while
   the clock passes the snooze's expiry and the SLA, checked out *)

NextLifecycle ==
    \/ \E k \in Pairs : makeReservation(Reservation(k, 5, "minutes"), FALSE, FALSE)
    \/ \E k \in Pairs : doCheckin(Pair(k), FALSE, "none")
    \/ doSnooze(Snooze(<<"svc", "db">>, 1, "minutes"), FALSE, FALSE)
    \/ \E k \in Pairs, e \in BOOLEAN : doCheckOut(Pair(k), FALSE, e)
    \/ listReservations(FALSE)
    \/ Tick(IF now = StartTime THEN MaxSteps - 1 ELSE 1)

SpecLifecycle == Init /\ [][NextLifecycle]_vars

----------------------------------------------------------------------------
(* Claims *)

WriteHandlers == {"makeReservation", "doCheckin", "doSnooze", "doCheckOut"}
key(in) == <<in.app, in.component>>

\* C1: when getNodes returns without a store error, its result has one entry
\* per row of the nodes table, and every node whose poll failed (transport
\* error or non-200 reply) is in it with isCoordinator = false.
C1_AllNodesReported ==
    (gn.pc = "returned" /\ ~gn.err) =>
        /\ Len(gn.nodes) = Len(nodeList)
        /\ \A i \in 1..Len(nodeList) :
              gn.polled[i] = "unreachable" =>
                 \E j \in 1..Len(gn.nodes) :
                    gn.nodes[j].id = nodeList[i].id /\ ~gn.nodes[j].isCoordinator

\* C2: a doCheckin step leaves either all three effects (lastCheckinTimestamp
\* set to now, numCheckins incremented, one housekeeping log entry appended)
\* or none of them, and a checkin answered as failed leaves none.
C2_CheckinAtomic ==
    [][(req'.op = "doCheckin" /\ now' = now) =>
          LET k == key(req'.in)
              old == rowsOf(reservations, k[1], k[2])
              new == rowsOf(reservations', k[1], k[2])
              recorded ==
                 /\ new # {}
                 /\ \A r \in new :
                       /\ r.lastCheckin = now
                       /\ r.numCheckins =
                             (IF old # {}
                              THEN (CHOOSE o \in old : TRUE).numCheckins + 1 ELSE 1)
                 /\ hklog' = Append(hklog, [app |-> k[1], component |-> k[2], ts |-> now])
          IN /\ recorded \/ UNCHANGED storeVars
             /\ resp'.body.success # "true" => UNCHANGED storeVars]_vars

\* C3: makeReservation answers every request whose timeUnits is not seconds,
\* minutes or hours, and every request whose frequency is <= 0, with a
\* validation error and without calling the store.
C3_RejectsBadReservation ==
    (req.op = "makeReservation"
       /\ (req.in.timeUnits \notin {"seconds", "minutes", "hours"} \/ req.in.frequency <= 0))
    => (req.validErr /\ resp.status = 400 /\ req.calls = <<>>)

\* C4: doSnooze rejects every request whose timeUnits is not seconds, minutes
\* or hours and every request whose duration is zero or negative: it is not
\* answered with success and nothing is stored.
C4_RejectsBadSnooze ==
    (req.op = "doSnooze"
       /\ (req.in.timeUnits \notin {"seconds", "minutes", "hours"} \/ req.in.duration <= 0))
    => (resp.body.success # "true" /\ req.calls = <<>>)

\* C5: every row of a reservation listing whose pair has an active
\* (non-expired) snooze at the instant of the listing has failingSLA = false.
C5_SnoozeSuppresses ==
    [][(req'.op = "listReservations" /\ ~req'.storeErr /\ now' = now) =>
          \A i \in DOMAIN resp'.body.result :
             LET r == resp'.body.result[i] IN
             activeSnooze(snoozes, r.app, r.component, now) => r.failingSLA = FALSE]_vars

\* C5 (the scenario): frequency 5 minutes, last checkin at T, snoozed for one
\* hour at T + 6min, listed at T + 6min30s as not failing.
C5_Witness ==
    /\ req.op = "listReservations"
    /\ now = StartTime + MaxSteps * TickSeconds
    /\ Len(resp.body.result) = 1
    /\ resp.body.result[1].frequency = 5
    /\ resp.body.result[1].timeUnits = "minutes"
    /\ resp.body.result[1].lastCheckin = StartTime
    /\ [app |-> "svc", component |-> "db", timeUnits |-> "hours", duration |-> 1,
        issued |-> StartTime + (MaxSteps - 1) * TickSeconds] \in snoozes
    /\ now - resp.body.result[1].lastCheckin > 5 * 60
    /\ resp.body.result[1].failingSLA = FALSE

\* C6: every row of a reservation listing whose pair has no active snooze has
\* failingSLA = ((now - lastCheckinTimestamp) > frequency * unitSeconds), also
\* when the pair never checked in (lastCheckinTimestamp = 0).
C6_FailingRule ==
    [][(req'.op = "listReservations" /\ ~req'.storeErr /\ now' = now) =>
          \A i \in DOMAIN resp'.body.result :
             LET r == resp'.body.result[i]
                 unit == CASE r.timeUnits = "seconds" -> 1
                           [] r.timeUnits = "minutes" -> 60
                           [] r.timeUnits = "hours" -> 3600
             IN (~\E s \in snoozes :
                     /\ s.app = r.app /\ s.component = r.component
                     /\ s.issued + s.duration * (CASE s.timeUnits = "seconds" -> 1
                                                   [] s.timeUnits = "minutes" -> 60
                                                   [] s.timeUnits = "hours" -> 3600) > now)
                => (r.failingSLA = ((now - r.lastCheckin) > r.frequency * unit))]_vars

\* C6: a listed pair that checked in, whose snooze has expired, and that is
\* reported failing; the listing holds at the boundary too (frequency 6
\* minutes is listed not failing at T + 6min)
C6_Witness ==
    /\ req.op = "listReservations"
    /\ Len(resp.body.result) = 1
    /\ resp.body.result[1].numCheckins > 0
    /\ resp.body.result[1].failingSLA = TRUE
    /\ snoozes # {}
    /\ \A s \in snoozes : expiry(s) <= now

\* C7: a doCheckin whose body decodes and whose store calls do not fail is
\* answered with success and leaves the pair's row with numCheckins one more
\* than before (1 when the pair had no row) and lastCheckinTimestamp = now.
C7_CheckinRecorded ==
    [][(req'.op = "doCheckin" /\ now' = now /\ ~req'.decodeErr /\ ~req'.storeErr) =>
          LET k == key(req'.in)
              old == rowsOf(reservations, k[1], k[2])
              new == rowsOf(reservations', k[1], k[2])
          IN
          /\ resp'.status = 200
          /\ resp'.body.success = "true"
          /\ new # {}
          /\ \A r \in new :
                /\ r.lastCheckin = now
                /\ r.numCheckins =
                      (IF old # {}
                       THEN (CHOOSE o \in old : TRUE).numCheckins + 1 ELSE 1)]_vars

\* C7: the first checkin of a pair that was never reserved, after the clock moved
C7_Witness ==
    /\ req.op = "doCheckin"
    /\ resp.body.success = "true"
    /\ now > StartTime
    /\ hklog = <<[app |-> "svc", component |-> "db", ts |-> now]>>
    /\ \E r \in rowsOf(reservations, "svc", "db") :
          r.numCheckins = 1 /\ r.lastCheckin = now

\* C8: a poll in progress can always complete: whatever the peer does,
\* getNodes is never left waiting for it.
C8_PollsBounded ==
    gn.pc = "get" => ENABLED getNodesPoll

\* C9: every write request in which decoding, validation or a store call
\* failed is answered with a status other than 200.
C9_FailuresNotSuccess ==
    (req.op \in WriteHandlers /\ (req.decodeErr \/ req.validErr \/ req.storeErr))
    => (resp.status # 200 /\ resp.body.success # "true")

\* C10: a makeReservation or doSnooze step that answers with a validation
\* failure has called no store operation and leaves the store as it was.
C10_ValidationBeforeMutation ==
    [][(/\ req'.op \in {"makeReservation", "doSnooze"}
        /\ now' = now
        /\ resp'.status = 400
        /\ resp'.body.message[1] \in {"Unable to store reservation, validation failure",
                                      "Unable to store snooze, validation failure"})
       => (req'.calls = <<>> /\ UNCHANGED storeVars)]_vars

\* C10: a reservation with an unknown timeUnits is refused while the store
\* holds a reservation and a snooze
C10_Witness ==
    /\ req.op = "makeReservation"
    /\ req.validErr
    /\ resp.status = 400
    /\ req.in.timeUnits = "days"
    /\ reservations # {}
    /\ snoozes # {}

\* C11: a doCheckOut whose body decodes and whose store call does not fail is
\* answered with success whether or not the pair has a reservation; when it
\* has none the store is left as it was, and after the checkout the pair has
\* no row, so a second checkout of the pair changes nothing more.
C11_CheckoutIdempotent ==
    [][(req'.op = "doCheckOut" /\ now' = now /\ ~req'.decodeErr /\ ~req'.storeErr) =>
          LET k == key(req'.in) IN
          /\ resp'.status = 200
          /\ resp'.body.success = "true"
          /\ rowsOf(reservations, k[1], k[2]) = {} => UNCHANGED storeVars
          /\ rowsOf(reservations', k[1], k[2]) = {}]_vars

\* C11: a successful checkout of a pair the store never heard of, while
\* another pair holds its reservation
C11_Witness ==
    /\ req.op = "doCheckOut"
    /\ ~req.decodeErr
    /\ resp.body.success = "true"
    /\ rowsOf(reservations, req.in.app, req.in.component) = {}
    /\ \A i \in 1..Len(hklog) : key(hklog[i]) # key(req.in)
    /\ \A s \in snoozes : key(s) # key(req.in)
    /\ reservations # {}

\* C12: a poll of getNodes reports its node with isCoordinator = true exactly
\* when the peer answered 200 with a body that was read and the flag its
\* isCoordinator handler served was set; the entries reported before are kept,
\* so two peers that both serve a set flag are both reported true.
C12_CoordinatorReported ==
    [][(gn.pc = "get" /\ gn'.pc = "rows") =>
          LET row == nodeList[gn.i]
              n == Len(gn'.nodes)
              reportedTrue ==
                 /\ n = Len(gn.nodes) + 1
                 /\ gn'.nodes[n].id = row.id
                 /\ gn'.nodes[n].isCoordinator
          IN /\ reportedTrue <=> peers[row.ipAddress] = "true"
             /\ \A j \in 1..Len(gn.nodes) : gn'.nodes[j] = gn.nodes[j]]_vars

\* C12: split-brain: getNodes has returned two nodes as coordinator, next to a
\* node that answered 200 and is not one
C12_Witness ==
    /\ gn.pc = "returned"
    /\ ~gn.err
    /\ Len(gn.nodes) = 3
    /\ gn.nodes[1].isCoordinator
    /\ ~gn.nodes[2].isCoordinator
    /\ gn.nodes[3].isCoordinator

C14_CheckinMonotonic ==
    [][\A r \in reservations :
          \A q \in rowsOf(reservations', r.app, r.component) :
             /\ q.lastCheckin >= r.lastCheckin
             /\ q.numCheckins >= r.numCheckins]_vars

\* C15: a poll that ends, failed or not, sets no error and passes on to the
\* next row of the nodes table, and a getNodes that returns without an error
\* has polled every row, the rows after a failed poll included.
C15_NotFailFast ==
    [][/\ (gn.pc = "get" /\ gn' # gn) =>
             /\ ~gn'.err
             /\ gn'.pc = "rows"
             /\ gn'.i = gn.i + 1
             /\ Len(gn'.polled) = Len(gn.polled) + 1
       /\ (gn'.pc = "returned" /\ ~gn'.err) => Len(gn'.polled) = Len(nodeList)]_vars

\* C15: getNodes has returned without an error after a transport failure or
\* non-200 reply of the first node, and the node after it was polled and answered
C15_Witness ==
    /\ gn.pc = "returned"
    /\ ~gn.err
    /\ Len(nodeList) >= 2
    /\ Len(gn.polled) = Len(nodeList)
    /\ gn.polled[1] = "unreachable"
    /\ gn.polled[2] = "reachable"
    /\ \E j \in 1..Len(gn.nodes) : gn.nodes[j].id = nodeList[2].id

\* C16: a pair's row leaves the table only in a doCheckOut step for that same
\* pair; a doCheckOut step leaves the rows of every other pair as they were;
\* and every listing that is answered has a row for each pair of the table,
\* whatever the clock, the snoozes and the state of the SLA.
C16_NeverExpired ==
    [][/\ \A r \in reservations :
             rowsOf(reservations', r.app, r.component) = {} =>
                /\ req'.op = "doCheckOut"
                /\ now' = now
                /\ key(req'.in) = key(r)
       /\ (req'.op = "doCheckOut" /\ now' = now) =>
             \A r \in reservations : key(r) # key(req'.in) => r \in reservations'
       /\ (req'.op = "listReservations" /\ ~req'.storeErr /\ now' = now) =>
             /\ reservations' = reservations
             /\ \A r \in reservations :
                   \E i \in DOMAIN resp'.body.result :
                      /\ key(resp'.body.result[i]) = key(r)
                      /\ resp'.body.result[i].numCheckins = r.numCheckins]_vars

\* C16: a pair that checked in is listed after its snooze expired and its SLA
\* failed, while the other pair, which had checked in too, is checked out
C16_Witness ==
    /\ req.op = "listReservations"
    /\ Len(resp.body.result) = 1
    /\ resp.body.result[1].app = "svc"
    /\ resp.body.result[1].numCheckins > 0
    /\ resp.body.result[1].failingSLA = TRUE
    /\ \E s \in snoozes : expiry(s) <= now
    /\ rowsOf(reservations, "svc", "db") # {}
    /\ rowsOf(reservations, "new", "x") = {}
    /\ \E i \in 1..Len(hklog) : hklog[i].app = "new"

\* C17: a step of makeReservation, doCheckin, doSnooze or doCheckOut whose
\* JSON body failed to decode calls no store operation and leaves the
\* reservations, the snoozes and the housekeeping log as they were.
C17_DecodeFailureNoMutation ==
    [][(req'.op \in WriteHandlers /\ now' = now /\ req'.decodeErr)
          => (req'.calls = <<>> /\ UNCHANGED storeVars)]_vars

\* C18: a write handler's step that answers with success (the OK of
\* makeReservation, success = true of the others) has had no store call fail
\* and leaves the store as every store operation of the request makes it: for
\* a checkin both the updated row and the new housekeeping log entry. A
\* request in which a store call failed is never answered with success.
C18_SuccessAfterStore ==
    [][(/\ req'.op \in WriteHandlers
        /\ now' = now
        /\ resp'.status = 200
        /\ (resp'.body.success = "true" \/ resp'.body = Str(<<"OK">>)))
       => /\ ~req'.storeErr
          /\ req'.op = "makeReservation" =>
                /\ req'.calls = <<"storeReservation">>
                /\ reservations' = storeReservation(reservations, req'.in)
          /\ req'.op = "doCheckin" =>
                /\ req'.calls = <<"storeCheckin", "logHouseKeeping">>
                /\ reservations' = storeCheckin(reservations, req'.in, now)
                /\ hklog' = logHouseKeeping(hklog, req'.in, now)
          /\ req'.op = "doSnooze" =>
                /\ req'.calls = <<"storeSnooze">>
                /\ snoozes' = storeSnooze(snoozes, req'.in, now)
          /\ req'.op = "doCheckOut" =>
                /\ req'.calls = <<"storeCheckOut">>
                /\ reservations' = storeCheckOut(reservations, req'.in)]_vars

\* C18: a checkin answered with success in a store that holds a snooze: the
\* pair's row and the last entry of the housekeeping log carry the same time
C18_Witness ==
    /\ req.op = "doCheckin"
    /\ ~req.storeErr
    /\ resp.body.success = "true"
    /\ snoozes # {}
    /\ Len(hklog) >= 2
    /\ key(hklog[Len(hklog)]) = key(req.in)
    /\ \E r \in rowsOf(reservations, req.in.app, req.in.component) :
          r.numCheckins = MaxCheckins /\ r.lastCheckin = hklog[Len(hklog)].ts

====
